---- MODULE Spec2Model ----
(***************************************************************************)
(* A model of rpyc/utils/helpers.py.                                       *)
(*                                                                         *)
(* Part I  : BgServingThread -- one foreground caller and the background   *)
(*           thread running _bg_server, interleaved statement by           *)
(*           statement (every read or write of self._active is a step).    *)
(* Part II : async_ and its process-wide weak cache -- a heap of objects   *)
(*           with numeric identities (id()) that are reused once an        *)
(*           object is reclaimed.                                          *)
(* Part III: timed -- construction of a timed proxy (which calls async_),  *)
(*           then one invocation after another, with a serving thread      *)
(*           completing pending results at any moment.                     *)
(* Part IV : buffiter -- the generator object, resumed by its consumer one *)
(*           next() at a time, fetching batches from a remote iterator.    *)
(* Part V  : async_ called from several threads at once, one statement of  *)
(*           async_ at a time.                                             *)
(***************************************************************************)
EXTENDS Integers, FiniteSets, Sequences, TLC

VARIABLES
    \* ---- Part I : BgServingThread ----
    active,         \* self._active
    conn,           \* self._conn : "conn" or "None"
    callback,       \* self._callback : "None" or "cb"
    bg_pc,          \* position of the background thread in _bg_server
    fg_pc,          \* position of the foreground caller
    serveCalls,     \* number of conn.serve calls started (saturates at MaxServe)
    raisedAt,       \* the N of the conn.serve call that raised (0: none raised)
    sawActive,      \* what the except handler read from self._active: "unread", "yes", "no"
    callbackCalls,  \* number of self._callback() invocations
    stopCalls,      \* number of stop() calls made by the caller
    stopReturns,    \* number of stop() calls that returned normally
    assertFails,    \* number of stop() calls that ended in AssertionError
    joins,          \* number of completed self._thread.join() calls
    deactivations,  \* number of True -> False transitions of self._active
    lateServes,     \* conn.serve calls started while self._active was False
    lateSleeps,     \* time.sleep calls started while self._active was False
    deleted,        \* whether __del__ has run
    \* ---- Part II : async_ and _async_proxies_cache ----
    heap,           \* numeric identity (id()) -> the object living there, or Free
    held,           \* identities of the objects the caller holds a reference to
    cache,          \* _async_proxies_cache._dict : key -> weak reference (serial), 0 = no entry
    pins,           \* identities of the objects the cache holds a strong reference to
    nextSerial,     \* serial number of the next object created
    hiWater,        \* number of identities that have been in use so far
    dispatches,     \* asyncreq calls issued (counted up to MaxDispatch)
    retired,        \* identities that were cache keys of a wrapper since reclaimed
    lastCall,       \* the async_ call that has just returned or raised, if any
    \* ---- Part III : timed ----
    t_pc,           \* position of the caller inside timed.__call__
    tProxy,         \* self.proxy of the timed object: the wrapper's serial, 0 = no timed object
    tTimeout,       \* self.timeout
    tCalls,         \* invocations of the timed proxy started
    tDispatches,    \* asyncreq calls made by these invocations
    tFailed,        \* asyncreq calls that raised
    results,        \* the AsyncResult objects created, in order of creation
    \* ---- Part IV : buffiter ----
    b_pc,           \* position of the generator created by buffiter(...)
    chunk,          \* argument chunk
    maxChunk,       \* argument max_chunk
    factor,         \* argument factor
    srcLen,         \* number of elements of the remote iterable : 1 .. srcLen
    srcPos,         \* number of elements the remote iterator has handed out
    iterCalls,      \* iter(obj) calls made
    count,          \* local variable count
    items,          \* elements of the current batch not yet yielded
    fetches,        \* the batch sizes requested with syncreq, in order
    responses,      \* number of batch responses received
    emptyBatches,   \* number of empty batch responses received
    yielded,        \* the elements yielded to the consumer, in order
    raisedIn,       \* where ValueError was raised: "none", "call" or "next"
    probes,         \* next() calls made on the finished generator
    \* ---- Part V : async_ from several threads ----
    r_pc,           \* thread -> its position in async_
    r_arg,          \* thread -> the target it passed (local proxy / pid), 0 = none
    r_caller,       \* thread -> the wrapper it created (local caller), 0 = none
    r_ret,          \* thread -> the wrapper its call returned, 0 = none
    w_target,       \* wrapper -> the target it wraps (_Async.proxy), 0 = not created
    byPid,          \* cache entries keyed by id(target): target -> wrapper, 0 = none
    bySelf,         \* wrappers with a cache entry under their own id
    kept,           \* wrappers the program holds from completed calls
    raceCalls       \* async_ calls started

bgVars == << active, conn, callback, bg_pc, fg_pc, serveCalls, raisedAt, sawActive,
             callbackCalls, stopCalls, stopReturns, assertFails, joins,
             deactivations, lateServes, lateSleeps, deleted >>

asyncVars == << heap, held, cache, pins, nextSerial, hiWater, dispatches, retired, lastCall >>

timedVars == << tProxy, t_pc, tTimeout, tCalls, tDispatches, tFailed, results >>

buffVars == << b_pc, chunk, maxChunk, factor, srcLen, srcPos, iterCalls, count,
               items, fetches, responses, emptyBatches, yielded, raisedIn, probes >>

raceVars == << r_pc, r_arg, r_caller, r_ret, w_target, byPid, bySelf, kept, raceCalls >>

\* what Parts I and II leave alone
extVars == << timedVars, buffVars, raceVars >>

vars == << bgVars, asyncVars, extVars >>

\* ---- bounds ----
MaxServe == 3        \* conn.serve calls are counted up to this number
MaxStopCalls == 2    \* stop() calls the caller makes
CounterCap == 3      \* the other event counters saturate here
NumSlots == 3        \* numeric identities (addresses) available to objects
MaxAllocs == 4       \* objects created over a run
MaxDispatch == 1     \* asyncreq calls counted
MaxTimedCalls == 3   \* invocations of the timed proxy
MaxTimeout == 2      \* timeouts a timed proxy is built with: 1 .. MaxTimeout
MaxChunkArg == 3     \* chunk ranges over 0 .. MaxChunkArg
MaxMaxChunkArg == 4  \* max_chunk ranges over 1 .. MaxMaxChunkArg
MaxFactorArg == 2    \* factor ranges over 0 .. MaxFactorArg
MaxSrcLen == 5       \* the remote iterable has 0 .. MaxSrcLen elements
ExampleLen == 25     \* length of the source iterated with the default arguments
MaxProbes == 2       \* next() calls made on a finished generator
NumThreads == 2      \* threads that call async_
NumTargets == 2      \* callable netrefs the threads pass to async_
MaxRaceCalls == 3    \* async_ calls started by the threads together

\* ---- default arguments of buffiter ----
DefaultChunk == 10
DefaultMaxChunk == 1000
DefaultFactor == 2

Min(a, b) == IF a < b THEN a ELSE b
Bump(n) == Min(n + 1, CounterCap)

(***************************************************************************)
(* Part II : async_ and the process-wide weak cache                        *)
(*                                                                         *)
(* An object is a record living at a numeric identity (its id()).  Its     *)
(* serial number tells objects apart that live at the same identity at     *)
(* different times.  conn / idpack say whether the object has the          *)
(* attributes ____conn__ / ____id_pack__, call whether it is callable;     *)
(* an _Async wrapper has async = TRUE and proxy = the serial of the        *)
(* object it wraps.                                                        *)
(***************************************************************************)
Slots == 1 .. NumSlots

Free == [serial |-> 0, conn |-> FALSE, idpack |-> FALSE, call |-> FALSE,
         async |-> FALSE, proxy |-> 0]

\* What the caller can create and pass to async_: a callable netref, a
\* netref that is not callable, an object with only one of the two netref
\* attributes, and a plain local callable.
Kinds ==
    { [conn |-> TRUE,  idpack |-> TRUE,  call |-> TRUE],
      [conn |-> TRUE,  idpack |-> TRUE,  call |-> FALSE],
      [conn |-> TRUE,  idpack |-> FALSE, call |-> TRUE],
      [conn |-> FALSE, idpack |-> FALSE, call |-> TRUE] }

NewObject(k, n) ==
    [serial |-> n, conn |-> k.conn, idpack |-> k.idpack, call |-> k.call,
     async |-> FALSE, proxy |-> 0]

\* _Async(proxy) : __slots__ = ("proxy", "__weakref__"); self.proxy = proxy.
\* The wrapper has __call__ and none of the netref attributes.
NewAsync(target, n) ==
    [serial |-> n, conn |-> FALSE, idpack |-> FALSE, call |-> TRUE,
     async |-> TRUE, proxy |-> target.serial]

IsLive(s) == heap[s].serial # 0
FreeSlots == { s \in Slots : ~IsLive(s) }

\* Where the allocator may put the next object: at any identity no live
\* object occupies.  Which one it takes (CPython: the address freed last)
\* is the allocator's business, not the program's.  Identities that were
\* never in use are interchangeable; they are numbered in the order in
\* which they are first used.
NextSlots == { s \in FreeSlots : s <= hiWater + 1 }
LiveSerials == { heap[s].serial : s \in Slots } \ {0}
SlotOf(n) == CHOOSE s \in Slots : heap[s].serial = n

\* ---- WeakValueDict : key -> weak reference to the value ----

\* WeakValueDict.__getitem__ / __contains__ : the entry resolves only while
\* its referent is alive.  0 stands for KeyError.
CacheGet(key) == IF cache[key] \in LiveSerials THEN cache[key] ELSE 0
CacheContains(key) == CacheGet(key) # 0

\* WeakValueDict.__setitem__ for each of the keys
CachePut(keys, n) == [k \in Slots |-> IF k \in keys THEN n ELSE cache[k]]

\* The weak references' callbacks: when object n dies, the entries that
\* refer to it are removed.
CacheForget(n) == [k \in Slots |-> IF cache[k] = n THEN 0 ELSE cache[k]]

\* ---- who keeps an object alive ----

\* (mutant) the wrapper keeps only a weak reference to its target
WrapperHolds_Weak(w, t) == FALSE

\* self.proxy = proxy : wrapper w holds a strong reference to its target t
WrapperHolds(w, t) ==
    /\ IsLive(w) /\ IsLive(t) /\ w # t
    /\ heap[w].async
    /\ heap[w].proxy = heap[t].serial

\* (mutant) the cache is an ordinary dict
CacheClass_Dict == "dict"

\* _async_proxies_cache = WeakValueDict()
CacheClass == "WeakValueDict"

\* The strong references a mapping of the given class takes when the value
\* at identity w is stored in it: a WeakValueDict keeps a weak reference to
\* the value and none to what its integer keys were computed from; a dict
\* keeps the value.
CacheStrong(class, w) == IF class = "WeakValueDict" THEN {} ELSE {w}

\* the cache holds a strong reference to the object at s
CachePins(s) == s \in pins

\* The strong references to the object at s, one edge per reference: from
\* the caller (src 0) if it holds s, from each wrapper whose target s is,
\* from the cache (src 0) if it pins s.
InEdges(s) ==
    { [kind |-> "caller", src |-> 0, dst |-> t] : t \in held \cap {s} }
    \cup { [kind |-> "wrapper", src |-> w, dst |-> s] :
              w \in { v \in Slots : WrapperHolds(v, s) } }
    \cup { [kind |-> "cache", src |-> 0, dst |-> t] : t \in { u \in {s} : CachePins(u) } }

\* the reference graph of the state
RefGraph == UNION { InEdges(s) : s \in Slots }

Wrapped(s) == \E e \in InEdges(s) : e.kind = "wrapper"

Referenced(s) == InEdges(s) # {}

Reclaimable(s) == IsLive(s) /\ ~Referenced(s)

\* ---- async_ ----

\* hasattr(proxy, "____conn__") and hasattr(proxy, "____id_pack__")
IsNetref(o) == o.conn /\ o.idpack

\* a valid argument of async_ : a callable remote reference
IsValidTarget(o) == IsNetref(o) /\ o.call

\* (mutant) async_ without its callable(proxy) test
AsyncOutcome_NoCallableTest(x) ==
    IF CacheContains(x) THEN "hit"
    ELSE IF ~IsNetref(heap[x]) THEN "TypeError"
    ELSE "new"

\* The path async_(proxy) takes for the object at identity x :
\*   pid in _async_proxies_cache  -> return the cached wrapper   ("hit")
\*   not a netref / not callable  -> raise TypeError
\*   otherwise                    -> create a wrapper            ("new")
AsyncOutcome(x) ==
    IF CacheContains(x) THEN "hit"
    ELSE IF ~IsNetref(heap[x]) THEN "TypeError"
    ELSE IF ~heap[x].call THEN "TypeError"
    ELSE "new"

\* (mutant) the new wrapper is registered under its own identity only
NewKeys_OnlySelf(pid, cid) == {cid}

\* _async_proxies_cache[id(caller)] = _async_proxies_cache[pid] = caller
NewKeys(pid, cid) == {pid, cid}

\* The live wrapper around the object at x, found by looking at the heap
\* (0 if there is none).
PriorWrapper(x) ==
    IF \E w \in Slots : WrapperHolds(w, x)
       THEN heap[CHOOSE w \in Slots : WrapperHolds(w, x)].serial
       ELSE 0

NoCall == [outcome |-> "none", arg |-> 0, valid |-> FALSE, argAsync |-> FALSE,
           prior |-> 0, res |-> 0, resProxy |-> 0, fresh |-> FALSE,
           reusedKey |-> FALSE, cacheSame |-> TRUE, dispatchSame |-> TRUE]

CallRecord(x, out, res, resProxy, fresh) ==
    [outcome |-> out, arg |-> heap[x].serial, valid |-> IsValidTarget(heap[x]),
     argAsync |-> heap[x].async, prior |-> PriorWrapper(x),
     res |-> res, resProxy |-> resProxy, fresh |-> fresh,
     reusedKey |-> x \in retired,
     cacheSame |-> (cache' = cache), dispatchSame |-> (dispatches' = dispatches)]

AsyncInit ==
    /\ heap = [s \in Slots |-> Free]
    /\ held = {}
    /\ cache = [s \in Slots |-> 0]
    /\ pins = {}
    /\ nextSerial = 1
    /\ hiWater = 0
    /\ dispatches = 0
    /\ retired = {}
    /\ lastCall = NoCall

\* The caller obtains a new object (a netref, or a local object).
Alloc(s, k) ==
    /\ s \in NextSlots
    /\ nextSerial <= MaxAllocs
    /\ heap' = [heap EXCEPT ![s] = NewObject(k, nextSerial)]
    /\ hiWater' = IF s > hiWater THEN s ELSE hiWater
    /\ held' = held \cup {s}
    /\ nextSerial' = nextSerial + 1
    /\ lastCall' = NoCall
    /\ UNCHANGED << cache, pins, dispatches, retired >>
    /\ UNCHANGED << bgVars, extVars >>

\* The body of async_(proxy) with proxy the object at identity x; whoever
\* called keeps the result.
AsyncStep(x) ==
    /\ x \in held
    /\ dispatches' = dispatches
    /\ retired' = retired
    /\ CASE AsyncOutcome(x) = "hit" ->
              /\ held' = held \cup {SlotOf(CacheGet(x))}
              /\ UNCHANGED << heap, cache, pins, nextSerial, hiWater >>
              /\ lastCall' = CallRecord(x, "hit", CacheGet(x),
                                        heap[SlotOf(CacheGet(x))].proxy, FALSE)
         [] AsyncOutcome(x) = "TypeError" ->
              /\ UNCHANGED << heap, held, cache, pins, nextSerial, hiWater >>
              /\ lastCall' = CallRecord(x, "TypeError", 0, 0, FALSE)
         [] AsyncOutcome(x) = "new" ->
              /\ nextSerial <= MaxAllocs
              /\ \E w \in NextSlots :
                    /\ heap' = [heap EXCEPT ![w] = NewAsync(heap[x], nextSerial)]
                    /\ cache' = CachePut(NewKeys(x, w), nextSerial)
                    /\ pins' = pins \cup CacheStrong(CacheClass, w)
                    /\ hiWater' = IF w > hiWater THEN w ELSE hiWater
                    /\ held' = held \cup {w}
              /\ nextSerial' = nextSerial + 1
              /\ lastCall' = CallRecord(x, "new", nextSerial, heap[x].serial,
                                        nextSerial \notin LiveSerials)

\* async_(proxy) called by the program
Async_(x) ==
    /\ AsyncStep(x)
    /\ UNCHANGED << bgVars, extVars >>

\* _Async.__call__ : asyncreq(self.proxy, HANDLE_CALL, ...)
InvokeStep(w) ==
    /\ w \in held
    /\ heap[w].async
    /\ dispatches' = Min(dispatches + 1, MaxDispatch)
    /\ lastCall' = NoCall
    /\ UNCHANGED << heap, held, cache, pins, nextSerial, hiWater, retired >>

\* the program invokes a wrapper it holds
Invoke(w) ==
    /\ InvokeStep(w)
    /\ UNCHANGED << bgVars, extVars >>

\* The caller drops its reference to the object at s.
Release(s) ==
    /\ s \in held
    /\ held' = held \ {s}
    /\ lastCall' = NoCall
    /\ UNCHANGED << heap, cache, pins, nextSerial, hiWater, dispatches, retired >>
    /\ UNCHANGED << bgVars, extVars >>

\* An object nothing refers to is reclaimed: its identity becomes free,
\* the weak references to it die and their callbacks drop the cache
\* entries; a reclaimed wrapper lets go of its target.
Reclaim(s) ==
    /\ Reclaimable(s)
    /\ heap' = [heap EXCEPT ![s] = Free]
    /\ cache' = CacheForget(heap[s].serial)
    /\ pins' = pins \ {s}
    /\ retired' = retired \cup { k \in Slots : cache[k] = heap[s].serial }
    /\ lastCall' = NoCall
    /\ UNCHANGED << held, nextSerial, hiWater, dispatches >>
    /\ UNCHANGED << bgVars, extVars >>

AsyncNext ==
    \/ \E s \in Slots, k \in Kinds : Alloc(s, k)
    \/ \E x \in Slots : Async_(x)
    \/ \E w \in Slots : Invoke(w)
    \/ \E s \in Slots : Release(s)
    \/ \E s \in Slots : Reclaim(s)

(***************************************************************************)
(* Part III : timed                                                        *)
(*                                                                         *)
(* An AsyncResult is a record: expiry is the value given to set_expiry (0  *)
(* while none was given), sets counts the set_expiry calls on it, ready    *)
(* says whether the serving thread has delivered the reply, handed whether *)
(* timed.__call__ has returned it to its caller.                           *)
(***************************************************************************)
NewResult == [expiry |-> 0, sets |-> 0, ready |-> FALSE, handed |-> FALSE]

\* No timed object has been constructed.
TimedInit ==
    /\ t_pc = "unbuilt"
    /\ tProxy = 0
    /\ tTimeout = 0
    /\ tCalls = 0
    /\ tDispatches = 0
    /\ tFailed = 0
    /\ results = << >>

\* the state of Part III while another part runs
TimedIdle == TimedInit

\* The program obtains the object it is going to pass to timed.
TimedTarget(s, k) ==
    /\ t_pc = "unbuilt"
    /\ LiveSerials = {}
    /\ Alloc(s, k)

\* The program has called async_ on that object before it builds the timed
\* proxy.
TimedPreWrap(x) ==
    /\ t_pc = "unbuilt"
    /\ Async_(x)

\* timed(proxy, timeout) with proxy the object at identity x :
\*     self.proxy = async_(proxy) ; self.timeout = timeout
\* A TypeError of async_ leaves __init__ : no timed object comes to exist.
TimedConstruct(x, timeout) ==
    /\ t_pc = "unbuilt"
    /\ AsyncStep(x)
    /\ IF AsyncOutcome(x) = "TypeError"
          THEN UNCHANGED << t_pc, tProxy, tTimeout >>
          ELSE /\ t_pc' = "idle"
               /\ tProxy' = lastCall'.res
               /\ tTimeout' = timeout
    /\ UNCHANGED << tCalls, tDispatches, tFailed, results >>
    /\ UNCHANGED << bgVars, buffVars, raceVars >>

\* timed.__call__ is entered
TimedCall ==
    /\ t_pc = "idle"
    /\ tCalls < MaxTimedCalls
    /\ tCalls' = tCalls + 1
    /\ t_pc' = "dispatch"
    /\ UNCHANGED << tProxy, tTimeout, tDispatches, tFailed, results >>
    /\ UNCHANGED << bgVars, asyncVars, buffVars, raceVars >>

\* (mutant) the result is returned without set_expiry
TimedDispatch_NoExpiry ==
    /\ t_pc = "dispatch"
    /\ InvokeStep(SlotOf(tProxy))
    /\ tDispatches' = tDispatches + 1
    /\ results' = Append(results, NewResult)
    /\ t_pc' = "return"
    /\ UNCHANGED << tProxy, tTimeout, tCalls, tFailed >>
    /\ UNCHANGED << bgVars, buffVars, raceVars >>

\* res = self.proxy(*args, **kwargs) : _Async.__call__ of the wrapper issues
\* asyncreq, which returns a new AsyncResult
TimedDispatch ==
    /\ t_pc = "dispatch"
    /\ InvokeStep(SlotOf(tProxy))
    /\ tDispatches' = tDispatches + 1
    /\ results' = Append(results, NewResult)
    /\ t_pc' = "set_expiry"
    /\ UNCHANGED << tProxy, tTimeout, tCalls, tFailed >>
    /\ UNCHANGED << bgVars, buffVars, raceVars >>

\* asyncreq raises : the error leaves timed.__call__, no AsyncResult exists
TimedDispatchRaise ==
    /\ t_pc = "dispatch"
    /\ InvokeStep(SlotOf(tProxy))
    /\ tDispatches' = tDispatches + 1
    /\ tFailed' = tFailed + 1
    /\ t_pc' = "idle"
    /\ UNCHANGED << tProxy, tTimeout, tCalls, results >>
    /\ UNCHANGED << bgVars, buffVars, raceVars >>

\* res.set_expiry(self.timeout)
TimedSetExpiry ==
    /\ t_pc = "set_expiry"
    /\ results' = [results EXCEPT ![Len(results)] =
                      [@ EXCEPT !.expiry = tTimeout, !.sets = @ + 1]]
    /\ t_pc' = "return"
    /\ UNCHANGED << tProxy, tTimeout, tCalls, tDispatches, tFailed >>
    /\ UNCHANGED << bgVars, asyncVars, buffVars, raceVars >>

\* return res
TimedReturn ==
    /\ t_pc = "return"
    /\ results' = [results EXCEPT ![Len(results)] = [@ EXCEPT !.handed = TRUE]]
    /\ t_pc' = "idle"
    /\ UNCHANGED << tProxy, tTimeout, tCalls, tDispatches, tFailed >>
    /\ UNCHANGED << bgVars, asyncVars, buffVars, raceVars >>

\* The serving thread receives the reply to the i-th request and completes
\* its AsyncResult, at any moment after the dispatch.
Deliver(i) ==
    /\ i \in 1 .. Len(results)
    /\ ~results[i].ready
    /\ results' = [results EXCEPT ![i] = [@ EXCEPT !.ready = TRUE]]
    /\ UNCHANGED << t_pc, tProxy, tTimeout, tCalls, tDispatches, tFailed >>
    /\ UNCHANGED << bgVars, asyncVars, buffVars, raceVars >>

TimedNext ==
    \/ \E s \in Slots, k \in Kinds : TimedTarget(s, k)
    \/ \E x \in Slots : TimedPreWrap(x)
    \/ \E x \in Slots, timeout \in 1 .. MaxTimeout : TimedConstruct(x, timeout)
    \/ TimedCall \/ TimedDispatch \/ TimedDispatchRaise
    \/ TimedSetExpiry \/ TimedReturn
    \/ \E i \in 1 .. MaxTimedCalls : Deliver(i)

(***************************************************************************)
(* Part IV : buffiter                                                      *)
(*                                                                         *)
(* buffiter is a generator function: calling it creates a generator object *)
(* and runs none of its body; the body runs, from where it was suspended   *)
(* to the next yield, each time the consumer calls next().  The remote     *)
(* iterable holds the elements 1 .. srcLen.                                *)
(***************************************************************************)

\* The remote side's answer to HANDLE_BUFFITER with argument n: the next n
\* elements of the iterator, fewer when it runs out.
Take(n) == [i \in 1 .. Min(n, srcLen - srcPos) |-> srcPos + i]

\* (mutant) the batch size shrinks: count * (factor - 1)
NextCount_Shrinks(c, f, m) == Min(c * (f - 1), m)

\* count = min(count * factor, max_chunk)
NextCount(c, f, m) == Min(c * f, m)

BuffStart(c, m, f, n) ==
    /\ b_pc = "uncalled"
    /\ chunk = c /\ maxChunk = m /\ factor = f /\ srcLen = n
    /\ srcPos = 0
    /\ iterCalls = 0
    /\ count = 0
    /\ items = << >>
    /\ fetches = << >>
    /\ responses = 0
    /\ emptyBatches = 0
    /\ yielded = << >>
    /\ raisedIn = "none"
    /\ probes = 0

\* The arguments: small ones of every shape, and the defaults over a
\* source of ExampleLen elements.
BuffInit ==
    \/ \E c \in 0 .. MaxChunkArg, m \in 1 .. MaxMaxChunkArg,
          f \in 0 .. MaxFactorArg, n \in 0 .. MaxSrcLen : BuffStart(c, m, f, n)
    \/ BuffStart(DefaultChunk, DefaultMaxChunk, DefaultFactor, ExampleLen)

\* the state of Part IV while another part runs
BuffIdle == BuffStart(DefaultChunk, DefaultMaxChunk, DefaultFactor, 0)

\* buffiter(obj, chunk, max_chunk, factor) : the call returns a generator
\* object; no statement of the body has run.
BuffCall ==
    /\ b_pc = "uncalled"
    /\ b_pc' = "created"
    /\ UNCHANGED << chunk, maxChunk, factor, srcLen, srcPos, iterCalls, count, items,
                    fetches, responses, emptyBatches, yielded, raisedIn, probes >>
    /\ UNCHANGED << bgVars, asyncVars, timedVars, raceVars >>

\* the consumer's first next() : the body starts
BuffFirstNext ==
    /\ b_pc = "created"
    /\ b_pc' = "start"
    /\ UNCHANGED << chunk, maxChunk, factor, srcLen, srcPos, iterCalls, count, items,
                    fetches, responses, emptyBatches, yielded, raisedIn, probes >>
    /\ UNCHANGED << bgVars, asyncVars, timedVars, raceVars >>

\* if factor < 1: raise ValueError ; it = iter(obj) ; count = chunk
BuffEnter ==
    /\ b_pc = "start"
    /\ IF factor < 1
          THEN /\ b_pc' = "error"
               /\ raisedIn' = "next"
               /\ UNCHANGED << iterCalls, count >>
          ELSE /\ b_pc' = "loop"
               /\ iterCalls' = iterCalls + 1
               /\ count' = chunk
               /\ UNCHANGED raisedIn
    /\ UNCHANGED << chunk, maxChunk, factor, srcLen, srcPos, items,
                    fetches, responses, emptyBatches, yielded, probes >>
    /\ UNCHANGED << bgVars, asyncVars, timedVars, raceVars >>

\* items = syncreq(it, HANDLE_BUFFITER, count) : the request goes out
BuffRequest ==
    /\ b_pc = "loop"
    /\ fetches' = Append(fetches, count)
    /\ b_pc' = "fetching"
    /\ UNCHANGED << chunk, maxChunk, factor, srcLen, srcPos, iterCalls, count, items,
                    responses, emptyBatches, yielded, raisedIn, probes >>
    /\ UNCHANGED << bgVars, asyncVars, timedVars, raceVars >>

\* (mutant) the loop ends on the first batch shorter than requested
BuffResponse_BreakOnShort ==
    /\ b_pc = "fetching"
    /\ items' = Take(count)
    /\ srcPos' = srcPos + Len(Take(count))
    /\ responses' = responses + 1
    /\ emptyBatches' = IF Take(count) = << >> THEN emptyBatches + 1 ELSE emptyBatches
    /\ count' = NextCount(count, factor, maxChunk)
    /\ b_pc' = IF Len(Take(count)) < count THEN "done" ELSE "for"
    /\ UNCHANGED << chunk, maxChunk, factor, srcLen, iterCalls,
                    fetches, yielded, raisedIn, probes >>
    /\ UNCHANGED << bgVars, asyncVars, timedVars, raceVars >>

\* the batch arrives ; count = min(count * factor, max_chunk) ;
\* if not items: break   -- the generator ends (StopIteration)
BuffResponse ==
    /\ b_pc = "fetching"
    /\ items' = Take(count)
    /\ srcPos' = srcPos + Len(Take(count))
    /\ responses' = responses + 1
    /\ emptyBatches' = IF Take(count) = << >> THEN emptyBatches + 1 ELSE emptyBatches
    /\ count' = NextCount(count, factor, maxChunk)
    /\ b_pc' = IF Take(count) = << >> THEN "done" ELSE "for"
    /\ UNCHANGED << chunk, maxChunk, factor, srcLen, iterCalls,
                    fetches, yielded, raisedIn, probes >>
    /\ UNCHANGED << bgVars, asyncVars, timedVars, raceVars >>

\* for elem in items: yield elem   -- the generator is suspended
BuffYield ==
    /\ b_pc = "for"
    /\ items # << >>
    /\ yielded' = Append(yielded, Head(items))
    /\ items' = Tail(items)
    /\ b_pc' = "suspended"
    /\ UNCHANGED << chunk, maxChunk, factor, srcLen, srcPos, iterCalls, count,
                    fetches, responses, emptyBatches, raisedIn, probes >>
    /\ UNCHANGED << bgVars, asyncVars, timedVars, raceVars >>

\* (mutant) no enclosing loop: the generator ends after its first batch
BuffForEnd_EndsAfterBatch ==
    /\ b_pc = "for"
    /\ items = << >>
    /\ b_pc' = "done"
    /\ UNCHANGED << chunk, maxChunk, factor, srcLen, srcPos, iterCalls, count, items,
                    fetches, responses, emptyBatches, yielded, raisedIn, probes >>
    /\ UNCHANGED << bgVars, asyncVars, timedVars, raceVars >>

\* the for loop is over : back to the top of while True
BuffForEnd ==
    /\ b_pc = "for"
    /\ items = << >>
    /\ b_pc' = "loop"
    /\ UNCHANGED << chunk, maxChunk, factor, srcLen, srcPos, iterCalls, count, items,
                    fetches, responses, emptyBatches, yielded, raisedIn, probes >>
    /\ UNCHANGED << bgVars, asyncVars, timedVars, raceVars >>

\* (mutant) the next batch is requested while one element is still to be
\* yielded
BuffResume_Prefetch ==
    /\ b_pc = "suspended"
    /\ b_pc' = IF Len(items) = 1 THEN "loop" ELSE "for"
    /\ UNCHANGED << chunk, maxChunk, factor, srcLen, srcPos, iterCalls, count, items,
                    fetches, responses, emptyBatches, yielded, raisedIn, probes >>
    /\ UNCHANGED << bgVars, asyncVars, timedVars, raceVars >>

\* the consumer's next() on the suspended generator : the for loop goes on
BuffResume ==
    /\ b_pc = "suspended"
    /\ b_pc' = "for"
    /\ UNCHANGED << chunk, maxChunk, factor, srcLen, srcPos, iterCalls, count, items,
                    fetches, responses, emptyBatches, yielded, raisedIn, probes >>
    /\ UNCHANGED << bgVars, asyncVars, timedVars, raceVars >>

\* next() on a generator that has finished raises StopIteration and runs
\* nothing
BuffProbe ==
    /\ b_pc \in {"done", "error"}
    /\ probes < MaxProbes
    /\ probes' = probes + 1
    /\ UNCHANGED << b_pc, chunk, maxChunk, factor, srcLen, srcPos, iterCalls, count,
                    items, fetches, responses, emptyBatches, yielded, raisedIn >>
    /\ UNCHANGED << bgVars, asyncVars, timedVars, raceVars >>

BuffNext ==
    \/ BuffCall \/ BuffFirstNext \/ BuffEnter \/ BuffRequest \/ BuffResponse
    \/ BuffYield \/ BuffForEnd \/ BuffResume \/ BuffProbe

(***************************************************************************)
(* Part V : async_ called from several threads                             *)
(*                                                                         *)
(* async_ takes no lock, so a thread switch can fall between any two of    *)
(* its statements.  The targets are callable netrefs the program holds;    *)
(* the program keeps every wrapper a call returns, so every cache entry    *)
(* stays alive.                                                            *)
(***************************************************************************)

Threads == 1 .. NumThreads
Targets == 1 .. NumTargets
Wrappers == 1 .. MaxRaceCalls

\* the wrapper _Async(proxy) creates next
FreshWrapper == CHOOSE w \in Wrappers : w_target[w] = 0 /\ \A v \in Wrappers : w_target[v] = 0 => w <= v

RaceInit ==
    /\ r_pc = [t \in Threads |-> "idle"]
    /\ r_arg = [t \in Threads |-> 0]
    /\ r_caller = [t \in Threads |-> 0]
    /\ r_ret = [t \in Threads |-> 0]
    /\ w_target = [w \in Wrappers |-> 0]
    /\ byPid = [x \in Targets |-> 0]
    /\ bySelf = {}
    /\ kept = {}
    /\ raceCalls = 0

\* thread t calls async_(proxy) ; pid = id(proxy)
RaceCall(t, x) ==
    /\ r_pc[t] = "idle"
    /\ raceCalls < MaxRaceCalls
    /\ raceCalls' = raceCalls + 1
    /\ r_arg' = [r_arg EXCEPT ![t] = x]
    /\ r_pc' = [r_pc EXCEPT ![t] = "lookup"]
    /\ UNCHANGED << r_caller, r_ret, w_target, byPid, bySelf, kept >>
    /\ UNCHANGED << bgVars, asyncVars, timedVars, buffVars >>

\* if pid in _async_proxies_cache:
RaceLookup(t) ==
    /\ r_pc[t] = "lookup"
    /\ r_pc' = [r_pc EXCEPT ![t] = IF byPid[r_arg[t]] # 0 THEN "hit" ELSE "miss"]
    /\ UNCHANGED << r_arg, r_caller, r_ret, w_target, byPid, bySelf, kept, raceCalls >>
    /\ UNCHANGED << bgVars, asyncVars, timedVars, buffVars >>

\* return _async_proxies_cache[pid]
RaceReturnCached(t) ==
    /\ r_pc[t] = "hit"
    /\ r_ret' = [r_ret EXCEPT ![t] = byPid[r_arg[t]]]
    /\ r_pc' = [r_pc EXCEPT ![t] = "returned"]
    /\ UNCHANGED << r_arg, r_caller, w_target, byPid, bySelf, kept, raceCalls >>
    /\ UNCHANGED << bgVars, asyncVars, timedVars, buffVars >>

\* the two tests pass for a callable netref ; caller = _Async(proxy)
RaceCreate(t) ==
    /\ r_pc[t] = "miss"
    /\ r_caller' = [r_caller EXCEPT ![t] = FreshWrapper]
    /\ w_target' = [w_target EXCEPT ![FreshWrapper] = r_arg[t]]
    /\ r_pc' = [r_pc EXCEPT ![t] = "put_self"]
    /\ UNCHANGED << r_arg, r_ret, byPid, bySelf, kept, raceCalls >>
    /\ UNCHANGED << bgVars, asyncVars, timedVars, buffVars >>

\* _async_proxies_cache[id(caller)] = ... = caller   (the first target of
\* the chained assignment)
RacePutSelf(t) ==
    /\ r_pc[t] = "put_self"
    /\ bySelf' = bySelf \cup {r_caller[t]}
    /\ r_pc' = [r_pc EXCEPT ![t] = "put_pid"]
    /\ UNCHANGED << r_arg, r_caller, r_ret, w_target, byPid, kept, raceCalls >>
    /\ UNCHANGED << bgVars, asyncVars, timedVars, buffVars >>

\* ... = _async_proxies_cache[pid] = caller   (the second target) ;
\* return caller
RacePutPid(t) ==
    /\ r_pc[t] = "put_pid"
    /\ byPid' = [byPid EXCEPT ![r_arg[t]] = r_caller[t]]
    /\ r_ret' = [r_ret EXCEPT ![t] = r_caller[t]]
    /\ r_pc' = [r_pc EXCEPT ![t] = "returned"]
    /\ UNCHANGED << r_arg, r_caller, w_target, bySelf, kept, raceCalls >>
    /\ UNCHANGED << bgVars, asyncVars, timedVars, buffVars >>

\* the code that called async_ stores the result and goes on
RaceKeep(t) ==
    /\ r_pc[t] = "returned"
    /\ kept' = kept \cup {r_ret[t]}
    /\ r_pc' = [r_pc EXCEPT ![t] = "idle"]
    /\ r_arg' = [r_arg EXCEPT ![t] = 0]
    /\ r_caller' = [r_caller EXCEPT ![t] = 0]
    /\ r_ret' = [r_ret EXCEPT ![t] = 0]
    /\ UNCHANGED << w_target, byPid, bySelf, raceCalls >>
    /\ UNCHANGED << bgVars, asyncVars, timedVars, buffVars >>

RaceNext ==
    \E t \in Threads :
        \/ \E x \in Targets : RaceCall(t, x)
        \/ RaceLookup(t) \/ RaceReturnCached(t) \/ RaceCreate(t)
        \/ RacePutSelf(t) \/ RacePutPid(t) \/ RaceKeep(t)

(***************************************************************************)
(* Part I : BgServingThread                                                *)
(***************************************************************************)

\* The thread object returned by worker(self._bg_server) has terminated:
\* its target returned ("done") or raised ("crashed").
ThreadExited == bg_pc \in {"done", "crashed"}

\* __init__ : the state right after construction.  The flag is set, the
\* thread has been started and is about to evaluate the loop condition.
BgInit ==
    /\ active = TRUE
    /\ conn = "conn"
    /\ callback \in {"None", "cb"}
    /\ bg_pc = "check"
    /\ fg_pc = "idle"
    /\ serveCalls = 0
    /\ raisedAt = 0
    /\ sawActive = "unread"
    /\ callbackCalls = 0
    /\ stopCalls = 0
    /\ stopReturns = 0
    /\ assertFails = 0
    /\ joins = 0
    /\ deactivations = 0
    /\ lateServes = 0
    /\ lateSleeps = 0
    /\ deleted = FALSE

\* ---------------- the background thread : _bg_server ----------------

\* (mutant) the loop never looks at the flag : while True
BgCheck_NoFlag ==
    /\ bg_pc = "check"
    /\ bg_pc' = "body"
    /\ UNCHANGED << active, conn, callback, fg_pc, serveCalls, raisedAt, sawActive,
                    callbackCalls, stopCalls, stopReturns, assertFails, joins,
                    deactivations, lateServes, lateSleeps, deleted >>
    /\ UNCHANGED << asyncVars, extVars >>

\* while self._active:
BgCheck ==
    /\ bg_pc = "check"
    /\ bg_pc' = IF active THEN "body" ELSE "done"
    /\ UNCHANGED << active, conn, callback, fg_pc, serveCalls, raisedAt, sawActive,
                    callbackCalls, stopCalls, stopReturns, assertFails, joins,
                    deactivations, lateServes, lateSleeps, deleted >>
    /\ UNCHANGED << asyncVars, extVars >>

\* self._conn.serve(self._serve_interval) is entered
BgServeCall ==
    /\ bg_pc = "body"
    /\ bg_pc' = "serving"
    /\ serveCalls' = Min(serveCalls + 1, MaxServe)
    /\ lateServes' = IF active THEN lateServes ELSE Bump(lateServes)
    /\ UNCHANGED << active, conn, callback, fg_pc, raisedAt, sawActive,
                    callbackCalls, stopCalls, stopReturns, assertFails, joins,
                    deactivations, lateSleeps, deleted >>
    /\ UNCHANGED << asyncVars, extVars >>

\* conn.serve returns; time.sleep(self._sleep_interval) is entered
BgServeReturn ==
    /\ bg_pc = "serving"
    /\ bg_pc' = "sleeping"
    /\ lateSleeps' = IF active THEN lateSleeps ELSE Bump(lateSleeps)
    /\ UNCHANGED << active, conn, callback, fg_pc, serveCalls, raisedAt, sawActive,
                    callbackCalls, stopCalls, stopReturns, assertFails, joins,
                    deactivations, lateServes, deleted >>
    /\ UNCHANGED << asyncVars, extVars >>

\* conn.serve raises an Exception : control goes to the except clause
BgServeRaise ==
    /\ bg_pc = "serving"
    /\ bg_pc' = "handler"
    /\ raisedAt' = serveCalls
    /\ UNCHANGED << active, conn, callback, fg_pc, serveCalls, sawActive,
                    callbackCalls, stopCalls, stopReturns, assertFails, joins,
                    deactivations, lateServes, lateSleeps, deleted >>
    /\ UNCHANGED << asyncVars, extVars >>

\* (mutant) the flag is tested before the first iteration only
BgSleepReturn_NoRecheck ==
    /\ bg_pc = "sleeping"
    /\ bg_pc' = "body"
    /\ UNCHANGED << active, conn, callback, fg_pc, serveCalls, raisedAt, sawActive,
                    callbackCalls, stopCalls, stopReturns, assertFails, joins,
                    deactivations, lateServes, lateSleeps, deleted >>
    /\ UNCHANGED << asyncVars, extVars >>

\* time.sleep returns; back to the loop condition
BgSleepReturn ==
    /\ bg_pc = "sleeping"
    /\ bg_pc' = "check"
    /\ UNCHANGED << active, conn, callback, fg_pc, serveCalls, raisedAt, sawActive,
                    callbackCalls, stopCalls, stopReturns, assertFails, joins,
                    deactivations, lateServes, lateSleeps, deleted >>
    /\ UNCHANGED << asyncVars, extVars >>

\* (mutant) the except clause does not test the flag
BgHandler_NoTest ==
    /\ bg_pc = "handler"
    /\ bg_pc' = "deactivate"
    /\ sawActive' = IF active THEN "yes" ELSE "no"
    /\ UNCHANGED << active, conn, callback, fg_pc, serveCalls, raisedAt,
                    callbackCalls, stopCalls, stopReturns, assertFails, joins,
                    deactivations, lateServes, lateSleeps, deleted >>
    /\ UNCHANGED << asyncVars, extVars >>

\* except Exception: if self._active:   (otherwise the error is dropped
\* and _bg_server returns)
BgHandler ==
    /\ bg_pc = "handler"
    /\ bg_pc' = IF active THEN "deactivate" ELSE "done"
    /\ sawActive' = IF active THEN "yes" ELSE "no"
    /\ UNCHANGED << active, conn, callback, fg_pc, serveCalls, raisedAt,
                    callbackCalls, stopCalls, stopReturns, assertFails, joins,
                    deactivations, lateServes, lateSleeps, deleted >>
    /\ UNCHANGED << asyncVars, extVars >>

\* (mutant) the except clause writes True instead of False
BgDeactivate_SetsTrue ==
    /\ bg_pc = "deactivate"
    /\ active' = TRUE
    /\ bg_pc' = "notify"
    /\ UNCHANGED << conn, callback, fg_pc, serveCalls, raisedAt, sawActive,
                    callbackCalls, stopCalls, stopReturns, assertFails, joins,
                    deactivations, lateServes, lateSleeps, deleted >>
    /\ UNCHANGED << asyncVars, extVars >>

\* self._active = False   (in the except clause)
BgDeactivate ==
    /\ bg_pc = "deactivate"
    /\ active' = FALSE
    /\ deactivations' = IF active THEN Bump(deactivations) ELSE deactivations
    /\ bg_pc' = "notify"
    /\ UNCHANGED << conn, callback, fg_pc, serveCalls, raisedAt, sawActive,
                    callbackCalls, stopCalls, stopReturns, assertFails, joins,
                    lateServes, lateSleeps, deleted >>
    /\ UNCHANGED << asyncVars, extVars >>

\* if self._callback is None: raise    -- the thread ends with the error
BgReraise ==
    /\ bg_pc = "notify"
    /\ callback = "None"
    /\ bg_pc' = "crashed"
    /\ UNCHANGED << active, conn, callback, fg_pc, serveCalls, raisedAt, sawActive,
                    callbackCalls, stopCalls, stopReturns, assertFails, joins,
                    deactivations, lateServes, lateSleeps, deleted >>
    /\ UNCHANGED << asyncVars, extVars >>

\* (mutant) the callback is invoked and the error is re-raised all the same
BgCallback_ThenRaise ==
    /\ bg_pc = "notify"
    /\ callback # "None"
    /\ callbackCalls' = Bump(callbackCalls)
    /\ bg_pc' = "crashed"
    /\ UNCHANGED << active, conn, callback, fg_pc, serveCalls, raisedAt, sawActive,
                    stopCalls, stopReturns, assertFails, joins,
                    deactivations, lateServes, lateSleeps, deleted >>
    /\ UNCHANGED << asyncVars, extVars >>

\* self._callback()   -- then _bg_server returns normally
BgCallback ==
    /\ bg_pc = "notify"
    /\ callback # "None"
    /\ callbackCalls' = Bump(callbackCalls)
    /\ bg_pc' = "done"
    /\ UNCHANGED << active, conn, callback, fg_pc, serveCalls, raisedAt, sawActive,
                    stopCalls, stopReturns, assertFails, joins,
                    deactivations, lateServes, lateSleeps, deleted >>
    /\ UNCHANGED << asyncVars, extVars >>

\* ---------------- the foreground caller : stop, __del__ ----------------

\* (mutant) stop() without its assertion : a second stop() runs like the first
StopAssert_NoAssert ==
    /\ fg_pc = "idle"
    /\ stopCalls < MaxStopCalls
    /\ stopCalls' = stopCalls + 1
    /\ fg_pc' = "stop_set"
    /\ UNCHANGED << active, conn, callback, bg_pc, serveCalls, raisedAt, sawActive,
                    callbackCalls, stopReturns, assertFails, joins,
                    deactivations, lateServes, lateSleeps, deleted >>
    /\ UNCHANGED << asyncVars, extVars >>

\* stop() is called; assert self._active
\* A failed assertion raises AssertionError out of stop() and nothing else
\* of stop() runs.
StopAssert ==
    /\ fg_pc = "idle"
    /\ stopCalls < MaxStopCalls
    /\ stopCalls' = stopCalls + 1
    /\ IF active
          THEN /\ fg_pc' = "stop_set"
               /\ UNCHANGED assertFails
          ELSE /\ fg_pc' = "idle"
               /\ assertFails' = Bump(assertFails)
    /\ UNCHANGED << active, conn, callback, bg_pc, serveCalls, raisedAt, sawActive,
                    callbackCalls, stopReturns, joins,
                    deactivations, lateServes, lateSleeps, deleted >>
    /\ UNCHANGED << asyncVars, extVars >>

\* self._active = False   (in stop)
StopSet ==
    /\ fg_pc = "stop_set"
    /\ active' = FALSE
    /\ deactivations' = IF active THEN Bump(deactivations) ELSE deactivations
    /\ fg_pc' = "stop_join"
    /\ UNCHANGED << conn, callback, bg_pc, serveCalls, raisedAt, sawActive,
                    callbackCalls, stopCalls, stopReturns, assertFails, joins,
                    lateServes, lateSleeps, deleted >>
    /\ UNCHANGED << asyncVars, extVars >>

\* (mutant) stop() does not wait for the thread
StopJoin_NoWait ==
    /\ fg_pc = "stop_join"
    /\ joins' = Bump(joins)
    /\ fg_pc' = "stop_release"
    /\ UNCHANGED << active, conn, callback, bg_pc, serveCalls, raisedAt, sawActive,
                    callbackCalls, stopCalls, stopReturns, assertFails,
                    deactivations, lateServes, lateSleeps, deleted >>
    /\ UNCHANGED << asyncVars, extVars >>

\* self._thread.join()  returns once the thread has terminated
StopJoin ==
    /\ fg_pc = "stop_join"
    /\ ThreadExited
    /\ joins' = Bump(joins)
    /\ fg_pc' = "stop_release"
    /\ UNCHANGED << active, conn, callback, bg_pc, serveCalls, raisedAt, sawActive,
                    callbackCalls, stopCalls, stopReturns, assertFails,
                    deactivations, lateServes, lateSleeps, deleted >>
    /\ UNCHANGED << asyncVars, extVars >>

\* self._conn = None ; stop() returns
StopRelease ==
    /\ fg_pc = "stop_release"
    /\ conn' = "None"
    /\ stopReturns' = Bump(stopReturns)
    /\ fg_pc' = IF deleted THEN "gone" ELSE "idle"
    /\ UNCHANGED << active, callback, bg_pc, serveCalls, raisedAt, sawActive,
                    callbackCalls, stopCalls, assertFails, joins,
                    deactivations, lateServes, lateSleeps, deleted >>
    /\ UNCHANGED << asyncVars, extVars >>

\* The caller lets go of its reference to the BgServingThread object.
Drop ==
    /\ fg_pc = "idle"
    /\ fg_pc' = "dropped"
    /\ UNCHANGED << active, conn, callback, bg_pc, serveCalls, raisedAt, sawActive,
                    callbackCalls, stopCalls, stopReturns, assertFails, joins,
                    deactivations, lateServes, lateSleeps, deleted >>
    /\ UNCHANGED << asyncVars, extVars >>

\* __del__ : runs when the object is unreachable, i.e. the caller dropped it
\* and the thread (whose target is the bound method self._bg_server) ended.
\*     if self._active: self.stop()
Del ==
    /\ fg_pc = "dropped"
    /\ ThreadExited
    /\ ~deleted
    /\ deleted' = TRUE
    /\ fg_pc' = IF active THEN "stop_set" ELSE "gone"
    /\ UNCHANGED << active, conn, callback, bg_pc, serveCalls, raisedAt, sawActive,
                    callbackCalls, stopCalls, stopReturns, assertFails, joins,
                    deactivations, lateServes, lateSleeps >>
    /\ UNCHANGED << asyncVars, extVars >>

BgThread ==
    \/ BgCheck \/ BgServeCall \/ BgServeReturn \/ BgServeRaise \/ BgSleepReturn
    \/ BgHandler \/ BgDeactivate \/ BgReraise \/ BgCallback

Caller == StopAssert \/ StopSet \/ StopJoin \/ StopRelease \/ Drop \/ Del

BgNext == BgThread \/ Caller

\* Part I alone: no object is ever passed to async_.
InitBg == BgInit /\ AsyncInit /\ TimedIdle /\ BuffIdle /\ RaceInit

SpecBg == InitBg /\ [][BgNext]_vars

\* Part II alone: the worker is constructed and its thread never scheduled.
InitAsync == BgInit /\ callback = "None" /\ AsyncInit /\ TimedIdle /\ BuffIdle /\ RaceInit

\* Part III alone.
InitTimed == BgInit /\ callback = "None" /\ AsyncInit /\ TimedInit /\ BuffIdle /\ RaceInit

SpecTimed == InitTimed /\ [][TimedNext]_vars

\* Part IV alone.
InitBuff == BgInit /\ callback = "None" /\ AsyncInit /\ TimedIdle /\ BuffInit /\ RaceInit

SpecBuff == InitBuff /\ [][BuffNext]_vars

\* Part V alone.
InitRace == BgInit /\ callback = "None" /\ AsyncInit /\ TimedIdle /\ BuffIdle /\ RaceInit

SpecRace == InitRace /\ [][RaceNext]_vars

SpecAsync == InitAsync /\ [][AsyncNext]_vars

\* Every conn.serve and every sleep eventually returns or raises, the
\* background thread is scheduled, and a caller inside stop() keeps running.
BgFairness ==
    /\ WF_vars(BgCheck) /\ WF_vars(BgServeCall)
    /\ WF_vars(BgServeReturn \/ BgServeRaise)
    /\ WF_vars(BgSleepReturn) /\ WF_vars(BgHandler) /\ WF_vars(BgDeactivate)
    /\ WF_vars(BgReraise) /\ WF_vars(BgCallback)
    /\ WF_vars(StopSet) /\ WF_vars(StopJoin) /\ WF_vars(StopRelease)

FairSpecBg == InitBg /\ [][BgNext]_vars /\ BgFairness

(***************************************************************************)
(* Claims about BgServingThread                                            *)
(***************************************************************************)

\* C1 : stop() returns only after the background thread has left
\* _bg_server for good (join has returned and whenever stop() has returned
\* the thread is terminated), and from then on the thread takes no step:
\* no conn.serve call is started or in progress after stop() returned.
C1_StopReturnsAfterThreadExit ==
    /\ []((fg_pc = "stop_release" \/ stopReturns > 0) => ThreadExited)
    /\ [][stopReturns > 0 => (bg_pc' = bg_pc /\ serveCalls' = serveCalls)]_vars

C1_Witness ==
    stopReturns = 1 /\ serveCalls >= 2 /\ bg_pc = "done" /\ joins = 1

\* C2 (as stated) : whenever conn.serve has raised and the thread has ended,
\* the flag went to False exactly once, and the callback ran exactly once
\* with a normal thread exit (callback given) or the thread ended with the
\* error (no callback) -- in every interleaving with the caller.
C2_RaiseAlwaysNotifies ==
    (raisedAt > 0 /\ ThreadExited) =>
        /\ deactivations = 1
        /\ IF callback # "None"
              THEN callbackCalls = 1 /\ bg_pc = "done"
              ELSE bg_pc = "crashed"

\* C2 (amended) : when conn.serve raises an Exception on its N-th call the
\* flag goes from True to False exactly once; if the except clause still
\* reads the flag as True the callback is invoked exactly once and the
\* thread returns normally (callback given) or the thread ends with the
\* error (no callback); if stop() has cleared the flag before the except
\* clause reads it, the error is dropped: no callback, normal return.
C2_RaiseNotifiesWhileActive ==
    (raisedAt > 0 /\ ThreadExited) =>
        /\ deactivations = 1
        /\ sawActive \in {"yes", "no"}
        /\ sawActive = "yes" =>
              IF callback # "None"
                 THEN callbackCalls = 1 /\ bg_pc = "done"
                 ELSE callbackCalls = 0 /\ bg_pc = "crashed"
        /\ sawActive = "no" => (callbackCalls = 0 /\ bg_pc = "done")

C2_Witness ==
    /\ raisedAt = 2 /\ sawActive = "yes" /\ callback = "cb"
    /\ callbackCalls = 1 /\ bg_pc = "done" /\ ~active

\* C3 : the worker is active from construction on; once self._active is
\* False no step sets it back to True, the loop body is not entered again,
\* and a terminated thread stays terminated.
C3_SingleUse ==
    /\ active = TRUE
    /\ [][~active => ~active']_vars
    /\ [][(~active /\ bg_pc # "body") => bg_pc' # "body"]_vars
    /\ [][ThreadExited => bg_pc' = bg_pc]_vars

C3_Witness ==
    ~active /\ sawActive = "yes" /\ ThreadExited /\ assertFails >= 1

\* C4 : a stop() call that finds self._active False ends in AssertionError
\* and changes nothing else: no join, the connection reference stays, the
\* flag stays, the call does not return normally.
C4_StopOnStoppedAsserts ==
    [][(fg_pc = "idle" /\ ~active /\ stopCalls' # stopCalls) =>
          /\ assertFails' > assertFails
          /\ fg_pc' = "idle"
          /\ joins' = joins
          /\ conn' = conn
          /\ active' = active
          /\ stopReturns' = stopReturns]_vars

C4_Witness ==
    assertFails >= 1 /\ stopReturns = 1 /\ joins = 1 /\ conn = "None"

\* C5 : under BgFairness, a stop() call that passed its assertion eventually
\* returns, with self._active False and self._conn None.
C5_StopEventuallyReturns ==
    (fg_pc = "stop_set") ~> (stopReturns >= 1 /\ ~active /\ conn = "None")

C5_Witness ==
    /\ stopReturns = 1 /\ conn = "None" /\ ~active
    /\ raisedAt > 0 /\ sawActive = "yes" /\ stopCalls = 1

\* C6 : once self._active is False the thread starts at most one more
\* conn.serve call and at most one more sleep.
C6_BoundedStopLatency ==
    lateServes <= 1 /\ lateSleeps <= 1

C6_Witness ==
    lateServes = 1 /\ lateSleeps = 1 /\ bg_pc = "done" /\ stopReturns = 1


(***************************************************************************)
(* Claims about async_ and its cache                                       *)
(***************************************************************************)

Returned == lastCall.outcome \in {"hit", "new"}

LiveAsyncs == { w \in Slots : IsLive(w) /\ heap[w].async }

\* C7 : async_(T) for a callable remote reference T returns the live
\* wrapper of T whenever one exists (the very same object), and creates a
\* new wrapper only when none exists, e.g. after the earlier one was
\* released and reclaimed; no two live wrappers share a target.
C7_OneLiveWrapperPerTarget ==
    /\ (lastCall.outcome # "none" /\ lastCall.valid) =>
          /\ lastCall.prior # 0 => (lastCall.outcome = "hit" /\ lastCall.res = lastCall.prior)
          /\ lastCall.prior = 0 => (lastCall.outcome = "new" /\ lastCall.fresh)
    /\ \A w1, w2 \in LiveAsyncs : heap[w1].proxy = heap[w2].proxy => w1 = w2

\* the first target (serial 1) was wrapped (serial 2), that wrapper was
\* reclaimed, and wrapping the same target again made a new wrapper
C7_Witness ==
    /\ lastCall.outcome = "new" /\ lastCall.valid
    /\ lastCall.arg = 1 /\ lastCall.res = 3 /\ lastCall.reusedKey

\* C8 (as stated) : async_(x) raises TypeError, leaving cache and dispatch
\* count alone, for every x that is not a netref or not callable -- also
\* when x is a previously returned wrapper.
C8_InvalidAlwaysTypeError ==
    (lastCall.outcome # "none" /\ ~lastCall.valid) =>
        /\ lastCall.outcome = "TypeError"
        /\ lastCall.cacheSame /\ lastCall.dispatchSame

\* C8 (amended) : async_(x) issues no dispatch and changes no cache entry
\* for every x that is not a netref or not callable; it raises TypeError
\* unless x is itself a live _Async wrapper (registered in the cache under
\* its own identity), in which case async_(x) returns x.
C8_InvalidTypeErrorUnlessCached ==
    (lastCall.outcome # "none" /\ ~lastCall.valid) =>
        /\ lastCall.cacheSame /\ lastCall.dispatchSame
        /\ IF lastCall.argAsync
              THEN lastCall.outcome = "hit" /\ lastCall.res = lastCall.arg
              ELSE lastCall.outcome = "TypeError"

\* a netref that is not callable was refused while a wrapper of another
\* target sits in the cache
C8_Witness ==
    /\ lastCall.outcome = "TypeError" /\ ~lastCall.valid /\ ~lastCall.argAsync
    /\ \E k \in Slots : CacheContains(k)
    /\ \E s \in Slots : /\ heap[s].serial = lastCall.arg
                        /\ IsNetref(heap[s]) /\ ~heap[s].call

\* C9 : async_(T) for a callable remote reference T never returns a
\* wrapper around another object than T, whatever was wrapped, released,
\* reclaimed and re-allocated at the same identities before.
C9_NoStaleMatch ==
    (Returned /\ lastCall.valid) => lastCall.resProxy = lastCall.arg

\* a third object, allocated at an identity that was a cache key of a
\* wrapper since reclaimed, got a wrapper of its own
C9_Witness ==
    /\ lastCall.outcome = "new" /\ lastCall.valid /\ lastCall.reusedKey
    /\ lastCall.arg = 3 /\ lastCall.res = 4 /\ lastCall.resProxy = 3

\* every cache entry that resolves belongs to a live wrapper and is keyed
\* by that wrapper's identity or by its target's identity
CacheEntriesLive ==
    \A k \in Slots :
        cache[k] # 0 =>
            /\ cache[k] \in LiveSerials
            /\ IsLive(k)
            /\ \/ heap[k].serial = cache[k]
               \/ heap[k].serial = heap[SlotOf(cache[k])].proxy

\* C10 (as stated) : every object (target or wrapper) is reclaimable as
\* soon as the caller holds no reference to it, and no cache entry
\* resolves for a reclaimed object.
C10_NothingExtendsLifetimes ==
    /\ \A s \in Slots : (IsLive(s) /\ s \notin held) => Reclaimable(s)
    /\ CacheEntriesLive

\* the live wrappers whose proxy field refers to the object at s
WrappersOf(s) ==
    { w \in Slots : IsLive(w) /\ w # s /\ heap[w].async /\ heap[w].proxy = heap[s].serial }

\* the cache has an entry under key s or an entry whose value is the object
\* at s
InCache(s) == cache[s] # 0 \/ \E k \in Slots : cache[k] = heap[s].serial

\* C10 (amended) : the cache extends no lifetime, the wrapper extends its
\* target's.  In the reference graph of every reachable state
\*   - no strong reference comes from the cache, whatever entries it has;
\*   - a live wrapper the caller does not hold has no strong reference to
\*     it and is reclaimable;
\*   - a live object that is not a wrapper, that the caller does not hold
\*     and that no live wrapper has as its proxy is reclaimable;
\*   - an object that a live wrapper has as its proxy is not reclaimable:
\*     the wrapper's reference is an edge of the graph;
\*   - every cache entry resolves to a live wrapper;
\* and an object goes away only when it is reclaimable, and then no cache
\* entry refers to it any more.
C10_CacheExtendsNoLifetime ==
    /\ [] (/\ \A e \in RefGraph : e.kind # "cache"
           /\ \A s \in Slots :
                 (IsLive(s) /\ heap[s].async /\ s \notin held) =>
                     (InEdges(s) = {} /\ Reclaimable(s))
           /\ \A s \in Slots :
                 (IsLive(s) /\ ~heap[s].async /\ s \notin held /\ WrappersOf(s) = {}) =>
                     Reclaimable(s)
           /\ \A s \in Slots : \A w \in WrappersOf(s) :
                 IsLive(s) =>
                     /\ [kind |-> "wrapper", src |-> w, dst |-> s] \in RefGraph
                     /\ ~Reclaimable(s)
           /\ CacheEntriesLive)
    /\ [][\A s \in Slots :
             (IsLive(s) /\ heap'[s].serial # heap[s].serial) =>
                 /\ Reclaimable(s)
                 /\ heap'[s] = Free
                 /\ \A k \in Slots : cache'[k] # heap[s].serial]_vars

\* a target that was wrapped, whose wrapper has been reclaimed and which
\* the caller no longer holds: it is reclaimable and its key is gone
C10_Witness ==
    \E s \in Slots :
        /\ IsLive(s) /\ IsValidTarget(heap[s]) /\ s \in retired
        /\ s \notin held /\ Reclaimable(s) /\ ~CacheContains(s)
        /\ \E w \in Slots :
              /\ w # s /\ IsLive(w) /\ heap[w].async /\ w \notin held
              /\ InCache(w) /\ Reclaimable(w)


(***************************************************************************)
(* Claims about timed                                                      *)
(***************************************************************************)

\* C11 : the timed proxy invokes the _Async wrapper that async_ gave its
\* constructor; every invocation makes exactly one asyncreq call, the one
\* the wrapper's __call__ makes; every AsyncResult handed to the caller has had set_expiry(timeout)
\* called on it exactly once, before it was handed over, whenever the
\* serving thread delivered the reply; a dispatch that raises creates no
\* AsyncResult and sets no expiry.
C11_ExpirySetBeforeReturn ==
    /\ t_pc = "unbuilt" => (tCalls = 0 /\ tDispatches = 0 /\ results = << >>)
    /\ t_pc # "unbuilt" =>
          /\ tTimeout \in 1 .. MaxTimeout
          /\ tProxy \in LiveSerials
          /\ heap[SlotOf(tProxy)].async
          /\ CacheGet(SlotOf(tProxy)) = tProxy
    /\ dispatches = Min(tDispatches, MaxDispatch)
    /\ \A i \in 1 .. Len(results) :
          /\ results[i].sets <= 1
          /\ results[i].handed => (results[i].sets = 1 /\ results[i].expiry = tTimeout)
          /\ results[i].sets = 0 => results[i].expiry = 0
    /\ t_pc = "idle" =>
          /\ tDispatches = tCalls
          /\ Len(results) = tCalls - tFailed
          /\ \A i \in 1 .. Len(results) : results[i].handed

\* one dispatch raised, another result was delivered by the serving thread
\* and then handed over with its expiry set
C11_Witness ==
    /\ tFailed = 1 /\ tCalls = 2 /\ Len(results) = 1 /\ t_pc = "idle"
    /\ results[1].ready /\ results[1].handed /\ results[1].expiry = tTimeout

(***************************************************************************)
(* Further properties of BgServingThread (SpecBg, FairSpecBg)              *)
(***************************************************************************)

\* the caller is in no stop() call
CallerAtRest == fg_pc \in {"idle", "dropped", "gone"}

\* C16 (as stated) : every complete execution -- the thread has ended and
\* the object has been finalised -- has joined the thread exactly once.
C16_ExactlyOneJoin ==
    (ThreadExited /\ fg_pc = "gone") => joins = 1

\* C16 (amended) : the thread is joined at most once, each join is the
\* join statement of stop() and finds the thread terminated; between
\* calls the number of joins is the number of stop() calls that passed
\* their assertion, and equals the number of stop() calls that returned.
C16_JoinedAtMostOnceInStop ==
    /\ [] (/\ joins <= 1
           /\ CallerAtRest => (joins = stopCalls - assertFails /\ joins = stopReturns))
    /\ [][joins' # joins =>
             (/\ fg_pc = "stop_join" /\ fg_pc' = "stop_release"
              /\ ThreadExited
              /\ joins' = joins + 1)]_vars

C16_Witness ==
    /\ bg_pc = "crashed" /\ sawActive = "yes" /\ fg_pc = "gone"
    /\ stopCalls = 2 /\ assertFails = 2 /\ joins = 0

\* C18 : when the except clause of _bg_server finds self._active False
\* (stop() has cleared it while conn.serve was running), the thread ends
\* normally, without invoking the callback and without re-raising; under
\* BgFairness the join in stop() then returns and so does stop().
C18_LateFailureSwallowed ==
    /\ [] (sawActive = "no" =>
             /\ raisedAt > 0
             /\ ~active
             /\ deactivations = 1
             /\ bg_pc = "done"
             /\ callbackCalls = 0
             /\ fg_pc \in {"stop_join", "stop_release", "idle", "dropped", "gone"})
    /\ (sawActive = "no") ~> (joins = 1 /\ stopReturns = 1 /\ conn = "None")

C18_Witness ==
    /\ sawActive = "no" /\ callback # "None" /\ lateServes = 1
    /\ bg_pc = "done" /\ joins = 1 /\ stopReturns = 1 /\ fg_pc = "idle"

(***************************************************************************)
(* Properties of buffiter (SpecBuff)                                       *)
(***************************************************************************)

\* The batch sizes as the recurrence states them: c_0 = chunk and
\* c_(n+1) = min(c_n * factor, max_chunk).
RECURSIVE BatchSize(_)
BatchSize(n) ==
    IF n = 0
       THEN chunk
       ELSE IF BatchSize(n - 1) * factor <= maxChunk
               THEN BatchSize(n - 1) * factor
               ELSE maxChunk

\* c_0 + ... + c_(k-1)
RECURSIVE BatchSum(_)
BatchSum(k) == IF k = 0 THEN 0 ELSE BatchSum(k - 1) + BatchSize(k - 1)

\* the least k with c_0 + ... + c_(k-1) >= srcLen  (batch sizes >= 1)
LeastFetches ==
    CHOOSE k \in 0 .. srcLen :
        /\ BatchSum(k) >= srcLen
        /\ \A j \in 0 .. k - 1 : BatchSum(j) < srcLen

\* C12 : for every factor < 1 the call buffiter(...) itself raises the
\* configuration error, with no fetch issued and no iter(obj) call made.
C12_BadFactorFailsAtCall ==
    (factor < 1 /\ b_pc # "uncalled") =>
        /\ raisedIn = "call"
        /\ fetches = << >>
        /\ iterCalls = 0

\* C13 : for factor >= 1 the requested batch sizes follow the recurrence,
\* never decrease and never exceed max_chunk.
C13_BatchSizesMonotoneCapped ==
    factor >= 1 =>
        \A i \in 1 .. Len(fetches) :
            /\ fetches[i] = BatchSize(i - 1)
            /\ fetches[i] <= maxChunk
            /\ \A j \in 1 .. i : fetches[j] <= fetches[i]

\* C14 : for chunk >= 1, max_chunk >= chunk, factor >= 1 the elements yielded
\* are the source's elements, each once and in source order; the generator
\* ends, without error, at the first empty batch and then has yielded all
\* srcLen elements; after it has ended nothing is yielded and nothing is
\* fetched.
C14_YieldsSourceThenEnds ==
    /\ [] ((chunk >= 1 /\ maxChunk >= chunk /\ factor >= 1) =>
             /\ Len(yielded) <= srcLen
             /\ \A i \in 1 .. Len(yielded) : yielded[i] = i
             /\ raisedIn = "none"
             /\ emptyBatches <= 1
             /\ emptyBatches = 1 <=> b_pc = "done"
             /\ b_pc = "done" => (Len(yielded) = srcLen /\ items = << >>))
    /\ [][b_pc = "done" =>
             (b_pc' = "done" /\ yielded' = yielded /\ fetches' = fetches)]_vars

C14_Witness ==
    /\ srcLen = ExampleLen /\ chunk = DefaultChunk
    /\ b_pc = "done" /\ Len(yielded) = ExampleLen /\ probes = 1

\* C15 : for chunk, max_chunk, factor >= 1 the source is fully delivered by
\* the first LeastFetches fetches, fetch n asking for c_(n-1) elements; a
\* short batch does not end the generator; exactly one more fetch, answered
\* by the empty batch, is made when the consumer asks past the last element.
C15_FetchCount ==
    (chunk >= 1 /\ maxChunk >= 1 /\ factor >= 1) =>
        /\ Len(fetches) <= LeastFetches + 1
        /\ \A i \in 1 .. Len(fetches) : fetches[i] = BatchSize(i - 1)
        /\ responses <= LeastFetches => srcPos = Min(BatchSum(responses), srcLen)
        /\ (Len(yielded) = srcLen /\ b_pc = "suspended") =>
               (Len(fetches) = LeastFetches /\ emptyBatches = 0)
        /\ b_pc = "done" =>
               (Len(fetches) = LeastFetches + 1 /\ emptyBatches = 1)

C15_Witness ==
    /\ srcLen = ExampleLen /\ chunk = DefaultChunk /\ factor = DefaultFactor
    /\ b_pc = "done" /\ Len(yielded) = ExampleLen
    /\ fetches = << DefaultChunk, 2 * DefaultChunk, 4 * DefaultChunk >>
    /\ responses = 3 /\ emptyBatches = 1

\* C17 : a batch is requested only by the running generator (the consumer
\* is waiting in next()) once every element fetched so far has been yielded;
\* at most one request is in flight.
C17_StrictNoPrefetch ==
    /\ [] (/\ Len(fetches) - responses = (IF b_pc = "fetching" THEN 1 ELSE 0)
           /\ b_pc \in {"loop", "fetching"} =>
                 (items = << >> /\ Len(yielded) = srcPos))
    /\ [][fetches' # fetches =>
             (/\ b_pc = "loop"
              /\ items = << >>
              /\ Len(yielded) = srcPos
              /\ Len(fetches') = Len(fetches) + 1)]_vars

C17_Witness ==
    /\ b_pc = "fetching" /\ Len(fetches) = 2
    /\ fetches[1] >= 2 /\ Len(yielded) = fetches[1] /\ srcLen > fetches[1]

\* C20 : for chunk, max_chunk, factor >= 1 every requested batch size is at
\* least 1, an empty batch is received only from an exhausted source, and
\* the generator ends only after the source has been yielded entirely.
C20_NoPrematureEnd ==
    (chunk >= 1 /\ maxChunk >= 1 /\ factor >= 1) =>
        /\ \A i \in 1 .. Len(fetches) : fetches[i] >= 1
        /\ b_pc \in {"loop", "fetching"} => count >= 1
        /\ emptyBatches > 0 => srcPos = srcLen
        /\ b_pc = "done" => Len(yielded) = srcLen

C20_Witness ==
    /\ chunk > maxChunk /\ factor = 1 /\ srcLen = MaxSrcLen
    /\ b_pc = "done" /\ Len(yielded) = srcLen /\ Len(fetches) > 2

(***************************************************************************)
(* async_ under concurrent calls (SpecRace)                                *)
(***************************************************************************)

\* the wrappers that exist: each is held by a thread or by the program
LiveWrappers == { w \in Wrappers : w_target[w] # 0 }

\* C19 : calls of async_ on the same target, from whichever threads, return
\* the same wrapper, and no two distinct live wrappers wrap the same target.
C19_ConcurrentCallsShareWrapper ==
    /\ \A t, u \in Threads :
          (r_ret[t] # 0 /\ r_ret[u] # 0 /\ r_arg[t] = r_arg[u]) => r_ret[t] = r_ret[u]
    /\ \A v, w \in LiveWrappers : w_target[v] = w_target[w] => v = w

====
